---- MODULE Spec2Model ----
(***************************************************************************)
(* Model of the claim / lease / finalize logic of lab_annotator            *)
(* (src/db_utils.py, class AnnotationManager) and of the reviewer flow     *)
(* that calls it (src/main.py, class LabAnalysisUI).                       *)
(*                                                                         *)
(* The store is PostgreSQL at its default isolation level, READ COMMITTED: *)
(* every statement reads the rows committed when the statement starts plus *)
(* the changes of its own transaction; a DELETE or UPDATE locks the rows   *)
(* it changes until its transaction ends and waits for a row another       *)
(* transaction has locked; SELECT ... FOR UPDATE SKIP LOCKED passes over   *)
(* rows another transaction has locked.  A transaction of                  *)
(* fetch_unannotated_doc is modelled statement by statement; the           *)
(* single-UPDATE transactions of save_annotation and save_annotated_doc    *)
(* are one step each.                                                      *)
(*                                                                         *)
(* The clock of the application (datetime.now()) and the clock of the      *)
(* store (NOW()) are taken to be the same clock.                           *)
(***************************************************************************)
EXTENDS Integers, Sequences, FiniteSets, TLC

\* ------------------------------------------------------------------------
\* Program constants (src/constants.py) and literals of the queries
\* ------------------------------------------------------------------------
STATUS_IN_PROCESS == "in process"
STATUS_COMPLETED == "completed"
STATUS_CHECKED == "checked"
EXPIRED_ANNOTATION_THRESHOLD == 30
\* the status literal of the INSERT of mark_document_in_process
MARK_STATUS_LITERAL == "in_process"

\* ------------------------------------------------------------------------
\* Bounds of the model
\* ------------------------------------------------------------------------
\* reviewers (sessions); the username of a session is the session's name
Users == {"u1", "u2"}
\* doc_id values that may exist in public.documents
Docs == {1, 2}
\* minutes the clock advances in one Tick
TickStep == 30
\* the clock stops advancing here
MaxClock == 60
\* fetch_unannotated_doc calls made in one run, by all reviewers together
MaxCalls == 2
\* values the id sequence of public.annotations hands out
MaxId == 2
\* values the id sequence of the header table hands out
MaxTestId == 3
\* rows of a table a reviewer submits
MaxRows == 2
\* values of the columns of the data editor
Dates == {"2024-01-01", "2024-01-02"}
Orders == {1}
Params == {"HGB", "WBC"}

\* SQL NULL in a time column, in the username column, and an empty result
NULL_TIME == -1
NULL_NAME == ""
NoDoc == 0

\* st.session_state[table_key] = None, and the empty DataFrame
NoTable == <<[test_date |-> "None", analysis_order |-> 0, parameter_name |-> "None"]>>
EmptyTable == <<>>

\* lastOp after a step that is none of the recorded calls
NoOp == [op |-> "none", doc_id |-> NoDoc, rowcount |-> 0]
Op(op, doc_id, rowcount) ==
    [op |-> op, doc_id |-> doc_id, rowcount |-> rowcount]

VARIABLES
    documents,      \* doc_id values of public.documents (immutable)
    annotations,    \* committed rows of public.annotations
    nextId,         \* next value of the id sequence of public.annotations
    clock,          \* minutes since the start
    pc,             \* per reviewer: position inside the transaction in flight
    txStart,        \* per reviewer: NOW() of the transaction in flight
    txDel,          \* per reviewer: ids of rows deleted (and locked), uncommitted
    txSnap,         \* per reviewer: doc_ids with a visible annotation row in the
                    \*   snapshot of the select statement
    txTime,         \* per reviewer: the :time parameter of the insert
    txIns,          \* per reviewer: rows inserted, uncommitted
    txLock,         \* per reviewer: doc_id of the documents row locked FOR UPDATE
    txArg,          \* per reviewer: doc_id argument of mark_document_in_process
    returns,        \* per result (a doc_id, or NoDoc for an empty result): how many
                    \*   completed fetch_unannotated_doc calls returned it
    lastOp,         \* the call of save_annotation, save_annotated_doc or
                    \*   mark_document_in_process that was the last step, with the
                    \*   number of rows its statement matched (history)
    current_doc_id, \* per reviewer: st.session_state.current_doc_id
    table_data,     \* per reviewer: st.session_state[table_key], the table shown
    header_table,   \* committed rows of the header table of one analysis type
    values_table,   \* per header id: the value rows with that test_id, in order
    nextTestId,     \* next value of the id sequence of the header table
    txGt,           \* per reviewer: existing_gt_header read by save_table_data
    txDf,           \* per reviewer: combined_df passed to save_table_data
    savedChanges,   \* per reviewer: Save Changes has succeeded for the document
                    \*   shown (history)
    finished        \* doc_ids a reviewer has saved and then finished with
                    \*   Save Annotation (history)

vars == <<documents, annotations, nextId, clock, pc, txStart, txDel, txSnap,
          txTime, txIns, txLock, txArg, returns, lastOp,
          current_doc_id, table_data, header_table, values_table, nextTestId,
          txGt, txDf, savedChanges, finished>>

txVars == <<txStart, txDel, txSnap, txTime, txIns, txLock, txArg>>

\* the session of the reviewer, the analysis tables and the transaction of
\* save_table_data
appVars == <<current_doc_id, table_data, header_table, values_table, nextTestId,
             txGt, txDf, savedChanges, finished>>

\* ------------------------------------------------------------------------
\* Rows and predicates of the queries
\* ------------------------------------------------------------------------
Min(S) == CHOOSE x \in S : \A y \in S : x <= y

\* a row of public.annotations; claimant is not a column: it records the
\* reviewer whose call inserted the row (history)
AnnotationRow(id, doc_id, status, username, time, save_time, claimant) ==
    [id |-> id, doc_id |-> doc_id, status |-> status, username |-> username,
     time |-> time, save_time |-> save_time, claimant |-> claimant]

\* the row of the INSERT with the status literal of mark_document_in_process
ClaimRowWithMarkStatus(id, doc_id, time, claimant) ==
    AnnotationRow(id, doc_id, MARK_STATUS_LITERAL, NULL_NAME, time, NULL_TIME, claimant)

\* INSERT INTO public.annotations (doc_id, status, time) SELECT doc_id, :status, :time
ClaimRow(id, doc_id, time, claimant) ==
    AnnotationRow(id, doc_id, STATUS_IN_PROCESS, NULL_NAME, time, NULL_TIME, claimant)

\* the cleanup predicate with "<=" for "<"
CleanupMatchesInclusive(r, now) ==
    /\ r.status = STATUS_IN_PROCESS
    /\ r.time # NULL_TIME
    /\ r.time <= now - EXPIRED_ANNOTATION_THRESHOLD

\* WHERE status = :status AND time::timestamp < NOW() - :threshold * INTERVAL '1 minute'
\* (a NULL time compares as unknown: the row is not selected)
CleanupMatches(r, now) ==
    /\ r.status = STATUS_IN_PROCESS
    /\ r.time # NULL_TIME
    /\ r.time < now - EXPIRED_ANNOTATION_THRESHOLD

\* a DELETE that removes one of the rows the predicate selects
ExpiredOneRow(rows, now) ==
    IF {r \in rows : CleanupMatches(r, now)} = {} THEN {}
    ELSE {CHOOSE r \in rows : CleanupMatches(r, now)}

\* the rows cleanup_query deletes among rows
Expired(rows, now) == {r \in rows : CleanupMatches(r, now)}

\* a statement that does not read the deletes of its own transaction
VisibleToWithoutOwnDeletes(u) == annotations

\* rows a statement of reviewer u reads: the committed rows less its own deletes
VisibleTo(u) == {r \in annotations : r.id \notin txDel[u]}

\* rows locked by a transaction of another reviewer
LockedByOther(u) == {r \in annotations : \E v \in Users \ {u} : r.id \in txDel[v]}

\* documents rows locked FOR UPDATE by a transaction of another reviewer
DocsLockedByOther(u) == {txLock[v] : v \in Users \ {u}} \ {NoDoc}

\* WHERE NOT EXISTS (SELECT 1 FROM annotations a WHERE d.doc_id = a.doc_id),
\* evaluated on the snapshot of the statement
Unannotated(u) == documents \ txSnap[u]

\* the query with ORDER BY d.doc_id DESC
NextDocDescending(u) ==
    LET free == Unannotated(u) \ DocsLockedByOther(u)
    IN  IF free = {} THEN NoDoc ELSE CHOOSE x \in free : \A y \in free : x >= y

\* ORDER BY d.doc_id LIMIT 1 FOR UPDATE SKIP LOCKED
NextDoc(u) ==
    LET free == Unannotated(u) \ DocsLockedByOther(u)
    IN  IF free = {} THEN NoDoc ELSE Min(free)

\* id values reserved by the transactions in flight that will insert a row
InFlight == Cardinality({u \in Users : pc[u] # "idle"})

\* fetch_unannotated_doc calls in flight, and calls completed
FetchStates == {"begin", "swept", "snap", "selected"}
FetchesInFlight == Cardinality({u \in Users : pc[u] \in FetchStates})
RECURSIVE SumOver(_, _)
SumOver(f, S) ==
    IF S = {} THEN 0
    ELSE LET x == CHOOSE y \in S : TRUE IN f[x] + SumOver(f, S \ {x})
CallsCompleted == SumOver(returns, Docs \cup {NoDoc})
CallsReturningDoc == SumOver(returns, Docs)

\* ------------------------------------------------------------------------
\* Initial state: a store with some documents and no annotation row
\* ------------------------------------------------------------------------
InitClaims ==
    /\ documents \in SUBSET Docs
    /\ annotations = {}
    /\ nextId = 1
    /\ clock = 0
    /\ pc = [u \in Users |-> "idle"]
    /\ txStart = [u \in Users |-> 0]
    /\ txDel = [u \in Users |-> {}]
    /\ txSnap = [u \in Users |-> {}]
    /\ txTime = [u \in Users |-> 0]
    /\ txIns = [u \in Users |-> {}]
    /\ txLock = [u \in Users |-> NoDoc]
    /\ txArg = [u \in Users |-> NoDoc]
    /\ returns = [d \in Docs \cup {NoDoc} |-> 0]
    /\ lastOp = NoOp

\* no analysis data, nobody logged in
Init ==
    /\ InitClaims
    /\ current_doc_id = [u \in Users |-> NoDoc]
    /\ table_data = [u \in Users |-> NoTable]
    /\ header_table = {}
    /\ values_table = <<>>
    /\ nextTestId = 1
    /\ txGt = [u \in Users |-> 0]
    /\ txDf = [u \in Users |-> NoTable]
    /\ savedChanges = [u \in Users |-> FALSE]
    /\ finished = {}

\* ------------------------------------------------------------------------
\* AnnotationManager.fetch_unannotated_doc
\* ------------------------------------------------------------------------
\* with self.db_manager.transaction() as conn: the transaction begins
fetch_unannotated_doc_begin(u) ==
    /\ UNCHANGED appVars
    /\ lastOp' = NoOp
    /\ pc[u] = "idle"
    /\ CallsCompleted + FetchesInFlight < MaxCalls
    /\ nextId + InFlight <= MaxId
    /\ pc' = [pc EXCEPT ![u] = "begin"]
    /\ txStart' = [txStart EXCEPT ![u] = clock]
    /\ UNCHANGED <<documents, annotations, nextId, clock, txDel, txSnap, txTime,
                   txIns, txLock, txArg, returns>>

\* cleanup_query: the DELETE waits while a row it selects is locked by
\* another transaction, then deletes (and locks) the rows it selects
fetch_unannotated_doc_cleanup(u) ==
    /\ UNCHANGED appVars
    /\ lastOp' = NoOp
    /\ pc[u] = "begin"
    /\ LET hit == Expired(VisibleTo(u), txStart[u])
       IN  /\ hit \cap LockedByOther(u) = {}
           /\ txDel' = [txDel EXCEPT ![u] = {r.id : r \in hit}]
    /\ pc' = [pc EXCEPT ![u] = "swept"]
    /\ UNCHANGED <<documents, annotations, nextId, clock, txStart, txSnap, txTime,
                   txIns, txLock, txArg, returns>>

\* select_query starts: its snapshot is taken and datetime.now() is read
fetch_unannotated_doc_snapshot(u) ==
    /\ UNCHANGED appVars
    /\ lastOp' = NoOp
    /\ pc[u] = "swept"
    /\ txSnap' = [txSnap EXCEPT ![u] = {r.doc_id : r \in VisibleTo(u)}]
    /\ txTime' = [txTime EXCEPT ![u] = clock]
    /\ pc' = [pc EXCEPT ![u] = "snap"]
    /\ UNCHANGED <<documents, annotations, nextId, clock, txStart, txDel,
                   txIns, txLock, txArg, returns>>

\* select_query runs: the first unannotated document of the snapshot that no
\* other transaction has locked is locked, and a row is inserted for it
fetch_unannotated_doc_select(u) ==
    /\ UNCHANGED appVars
    /\ lastOp' = NoOp
    /\ pc[u] = "snap"
    /\ LET d == NextDoc(u)
       IN  /\ txLock' = [txLock EXCEPT ![u] = d]
           /\ IF d = NoDoc
              THEN UNCHANGED <<txIns, nextId>>
              ELSE /\ txIns' = [txIns EXCEPT ![u] =
                          {ClaimRow(nextId, d, txTime[u], u)}]
                   /\ nextId' = nextId + 1
    /\ txSnap' = [txSnap EXCEPT ![u] = {}]
    /\ txTime' = [txTime EXCEPT ![u] = 0]
    /\ pc' = [pc EXCEPT ![u] = "selected"]
    /\ UNCHANGED <<documents, annotations, clock, txStart, txDel, txArg, returns>>

\* return result.fetchone(): the transaction commits and the row is returned
fetch_unannotated_doc_return(u) ==
    /\ lastOp' = NoOp
    /\ pc[u] = "selected"
    /\ annotations' = {r \in annotations : r.id \notin txDel[u]} \cup txIns[u]
    /\ returns' = [returns EXCEPT ![txLock[u]] = @ + 1]
    /\ pc' = [pc EXCEPT ![u] = "idle"]
    /\ txDel' = [txDel EXCEPT ![u] = {}]
    /\ txIns' = [txIns EXCEPT ![u] = {}]
    /\ txLock' = [txLock EXCEPT ![u] = NoDoc]
    /\ txStart' = [txStart EXCEPT ![u] = 0]
    /\ UNCHANGED <<documents, nextId, clock, txSnap, txTime, txArg>>

\* a call of fetch_unannotated_doc by a caller other than LabAnalysisUI
fetch_unannotated_doc_commit(u) ==
    /\ fetch_unannotated_doc_return(u)
    /\ UNCHANGED appVars

\* a connection on which the DELETE of the sweep is not undone
RolledBackKeepingSweep(u) == {r \in annotations : r.id \notin txDel[u]}

\* the rows when the transaction of reviewer u is rolled back: its deletes
\* and its insert are undone
RolledBack(u) == annotations

\* a statement of the call fails (cleanup_query, select_query or the commit):
\* engine.begin() rolls the transaction back, "except Exception" logs the
\* error and raises it to the caller; the id sequence is not rolled back
fetch_unannotated_doc_raise(u) ==
    /\ UNCHANGED appVars
    /\ pc[u] \in FetchStates
    /\ annotations' = RolledBack(u)
    /\ lastOp' = Op("fetch_unannotated_doc raised", txLock[u],
                     Cardinality(txDel[u]) + Cardinality(txIns[u]))
    /\ pc' = [pc EXCEPT ![u] = "idle"]
    /\ txDel' = [txDel EXCEPT ![u] = {}]
    /\ txIns' = [txIns EXCEPT ![u] = {}]
    /\ txLock' = [txLock EXCEPT ![u] = NoDoc]
    /\ txStart' = [txStart EXCEPT ![u] = 0]
    /\ txSnap' = [txSnap EXCEPT ![u] = {}]
    /\ txTime' = [txTime EXCEPT ![u] = 0]
    /\ UNCHANGED <<documents, nextId, clock, txArg, returns>>

\* ------------------------------------------------------------------------
\* AnnotationManager.save_annotation, save_annotated_doc
\* ------------------------------------------------------------------------
\* the predicate of save_annotation without "AND status = :old_status"
SaveAnnotationMatchesAnyStatus(r, doc_id) ==
    r.doc_id = doc_id

\* WHERE doc_id = :doc_id AND status = :old_status
SaveAnnotationMatches(r, doc_id) ==
    /\ r.doc_id = doc_id
    /\ r.status = STATUS_IN_PROCESS

\* the predicate of save_annotated_doc with a condition on the status
SaveAnnotatedDocMatchesCompleted(r, doc_id) ==
    /\ r.doc_id = doc_id
    /\ r.status = STATUS_COMPLETED

\* WHERE doc_id = :doc_id
SaveAnnotatedDocMatches(r, doc_id) ==
    r.doc_id = doc_id

\* SET status = :status, username = :username, save_time = :save_time
Finalized(r, status, username, now) ==
    [r EXCEPT !.status = status, !.username = username, !.save_time = now]

\* one UPDATE in its own transaction; it waits while a row it selects is
\* locked by another transaction
save_annotation(u, doc_id) ==
    /\ UNCHANGED appVars
    /\ pc[u] = "idle"
    /\ LET hit == {r \in annotations : SaveAnnotationMatches(r, doc_id)}
       IN  /\ hit \cap LockedByOther(u) = {}
           /\ annotations' = (annotations \ hit) \cup
                  {Finalized(r, STATUS_COMPLETED, u, clock) : r \in hit}
           /\ lastOp' = Op("save_annotation", doc_id, Cardinality(hit))
    /\ UNCHANGED <<documents, nextId, clock, pc, returns>>
    /\ UNCHANGED txVars

save_annotated_doc(u, doc_id) ==
    /\ UNCHANGED appVars
    /\ pc[u] = "idle"
    /\ LET hit == {r \in annotations : SaveAnnotatedDocMatches(r, doc_id)}
       IN  /\ hit \cap LockedByOther(u) = {}
           /\ annotations' = (annotations \ hit) \cup
                  {Finalized(r, STATUS_CHECKED, u, clock) : r \in hit}
           /\ lastOp' = Op("save_annotated_doc", doc_id, Cardinality(hit))
    /\ UNCHANGED <<documents, nextId, clock, pc, returns>>
    /\ UNCHANGED txVars

\* ------------------------------------------------------------------------
\* AnnotationManager.mark_document_in_process
\* ------------------------------------------------------------------------
\* the check with a condition on the status
MarkMatchesInProcessOnly(r, doc_id, username) ==
    /\ r.doc_id = doc_id
    /\ r.username = username
    /\ r.status = MARK_STATUS_LITERAL

\* check_query: WHERE doc_id = :doc_id AND username = :username
MarkMatches(r, doc_id, username) ==
    /\ r.doc_id = doc_id
    /\ r.username = username

\* existing = conn.execute(check_query, ...).scalar()
MarkExisting(doc_id, username) ==
    \E r \in annotations : MarkMatches(r, doc_id, username)

\* the check; "if not existing" decides whether the insert follows
mark_document_in_process_check(u, doc_id) ==
    /\ UNCHANGED appVars
    /\ pc[u] = "idle"
    /\ nextId + InFlight <= MaxId
    /\ lastOp' = Op("mark_document_in_process", doc_id,
                     Cardinality({r \in annotations : MarkMatches(r, doc_id, u)}))
    /\ IF MarkExisting(doc_id, u)
       THEN UNCHANGED <<pc, txArg>>
       ELSE /\ pc' = [pc EXCEPT ![u] = "mark"]
            /\ txArg' = [txArg EXCEPT ![u] = doc_id]
    /\ UNCHANGED <<documents, annotations, nextId, clock, txStart, txDel, txSnap,
                   txTime, txIns, txLock, returns>>

\* insert_query, then the transaction commits
mark_document_in_process_insert(u) ==
    /\ UNCHANGED appVars
    /\ lastOp' = NoOp
    /\ pc[u] = "mark"
    /\ annotations' = annotations \cup
           {AnnotationRow(nextId, txArg[u], MARK_STATUS_LITERAL, u, NULL_TIME, clock, u)}
    /\ nextId' = nextId + 1
    /\ pc' = [pc EXCEPT ![u] = "idle"]
    /\ txArg' = [txArg EXCEPT ![u] = NoDoc]
    /\ UNCHANGED <<documents, clock, txStart, txDel, txSnap, txTime, txIns, txLock,
                   returns>>

\* ------------------------------------------------------------------------
\* The clock
\* ------------------------------------------------------------------------
Tick ==
    /\ UNCHANGED appVars
    /\ lastOp' = NoOp
    /\ clock + TickStep <= MaxClock
    /\ clock' = clock + TickStep
    /\ UNCHANGED <<documents, annotations, nextId, pc, returns>>
    /\ UNCHANGED txVars

Next ==
    \/ \E u \in Users : fetch_unannotated_doc_begin(u)
    \/ \E u \in Users : fetch_unannotated_doc_cleanup(u)
    \/ \E u \in Users : fetch_unannotated_doc_snapshot(u)
    \/ \E u \in Users : fetch_unannotated_doc_select(u)
    \/ \E u \in Users : fetch_unannotated_doc_commit(u)
    \/ \E u \in Users, d \in documents : save_annotation(u, d)
    \/ \E u \in Users, d \in documents : save_annotated_doc(u, d)
    \/ \E u \in Users, d \in documents : mark_document_in_process_check(u, d)
    \/ \E u \in Users : mark_document_in_process_insert(u)
    \/ Tick

Spec == Init /\ [][Next]_vars

\* N concurrent fetch_unannotated_doc calls and nothing else: no finalize call,
\* and no time passes, so no lease expires during the run
NextClaims ==
    \/ \E u \in Users : fetch_unannotated_doc_begin(u)
    \/ \E u \in Users : fetch_unannotated_doc_cleanup(u)
    \/ \E u \in Users : fetch_unannotated_doc_snapshot(u)
    \/ \E u \in Users : fetch_unannotated_doc_select(u)
    \/ \E u \in Users : fetch_unannotated_doc_commit(u)

SpecClaims == Init /\ [][NextClaims]_vars

\* ------------------------------------------------------------------------
\* LabAnalysisUI: the tables of one analysis type
\* ------------------------------------------------------------------------
HeaderRow(id, doc_id, test_date, analysis_order, annotation_source) ==
    [id |-> id, doc_id |-> doc_id, test_date |-> test_date,
     analysis_order |-> analysis_order, annotation_source |-> annotation_source]

\* a row of the combined DataFrame of the data editor
TableRow(test_date, analysis_order, parameter_name) ==
    [test_date |-> test_date, analysis_order |-> analysis_order,
     parameter_name |-> parameter_name]

TableRows == {TableRow(t, o, p) : t \in Dates, o \in Orders, p \in Params}

\* the combined DataFrames a reviewer can submit: each names a parameter
\* once, and its rows carry the test_date and analysis_order of its first
\* row, the only ones split_combined_data reads
Tables ==
    {df \in UNION {[1..n -> TableRows] : n \in 0..MaxRows} :
        \A i, j \in 1..Len(df) :
            /\ df[i].test_date = df[1].test_date
            /\ df[i].analysis_order = df[1].analysis_order
            /\ i # j => df[i].parameter_name # df[j].parameter_name}

\* split_combined_data: the header fields are those of the first row
HeaderOf(df) == [test_date |-> df[1].test_date, analysis_order |-> df[1].analysis_order]
ValuesOf(df) == [i \in 1..Len(df) |-> df[i].parameter_name]

\* header rows of a document with the given annotation_source
HeadersOf(doc_id, annotation_source) ==
    {h \in header_table : h.doc_id = doc_id /\ h.annotation_source = annotation_source}

\* prepare_combined_data(fetch_lab_data(doc_id)): the gpt header and its values
\* as one table; empty when there is no gpt header or it has no values
PreparedTables(doc_id) ==
    IF HeadersOf(doc_id, "gpt") = {}
    THEN {EmptyTable}
    ELSE {[i \in 1..Len(values_table[h.id]) |->
              TableRow(h.test_date, h.analysis_order, values_table[h.id][i])] :
          h \in HeadersOf(doc_id, "gpt")}

\* the header lookup without "AND annotation_source = 'ground_truth'"
ExistingHeaderAnySource(doc_id) ==
    IF {h \in header_table : h.doc_id = doc_id} = {}
    THEN {0}
    ELSE {h.id : h \in {h2 \in header_table : h2.doc_id = doc_id}}

\* existing_gt_header = conn.execute(check_gt_query).scalar(): the id of a
\* ground_truth header of the document, or nothing
ExistingGt(doc_id) ==
    IF HeadersOf(doc_id, "ground_truth") = {}
    THEN {0}
    ELSE {h.id : h \in HeadersOf(doc_id, "ground_truth")}

SavesInFlight == Cardinality({u \in Users : pc[u] = "saving"})

\* save_table_data up to the two check queries
save_table_data_check(u, doc_id, df) ==
    /\ pc[u] = "idle"
    /\ nextTestId + SavesInFlight <= MaxTestId
    /\ \E gt \in ExistingGt(doc_id) : txGt' = [txGt EXCEPT ![u] = gt]
    /\ txDf' = [txDf EXCEPT ![u] = df]
    /\ txArg' = [txArg EXCEPT ![u] = doc_id]
    /\ pc' = [pc EXCEPT ![u] = "saving"]
    /\ lastOp' = NoOp
    /\ UNCHANGED <<documents, annotations, nextId, clock, txStart, txDel, txSnap,
                   txTime, txIns, txLock, returns>>
    /\ UNCHANGED <<header_table, values_table, nextTestId>>

\* an empty table raises in either branch: the INSERT gets no parameters
\* (to_dict('records') is empty), the UPDATE reads header_df['test_date']
SaveRaises(u) == txDf[u] = EmptyTable

\* the statement at which the call raises, or "none": an empty table raises
\* at the header statement, and the store may fail any statement
SaveFailure(u) ==
    IF SaveRaises(u) THEN {"header"}
    ELSE {"none", "lookup", "header", "delete", "insert"}

\* the id the value rows are written under: the id of the header inserted,
\* or existing_gt_header
TestId(u) == IF txGt[u] = 0 THEN nextTestId ELSE txGt[u]

\* the header table after the INSERT or the UPDATE of the header
HeaderWritten(u) ==
    LET h == HeaderOf(txDf[u])
    IN  IF txGt[u] = 0
        THEN header_table \cup
                 {HeaderRow(nextTestId, txArg[u], h.test_date, h.analysis_order,
                            "ground_truth")}
        ELSE {IF r.id = txGt[u]
              THEN [r EXCEPT !.test_date = h.test_date,
                             !.analysis_order = h.analysis_order]
              ELSE r : r \in header_table}

\* value rows inserted without the DELETE before them
ValuesAppended(test_id, rows) ==
    [t \in DOMAIN values_table \cup {test_id} |->
        IF t = test_id
        THEN (IF t \in DOMAIN values_table THEN values_table[t] ELSE <<>>) \o rows
        ELSE values_table[t]]

\* the values table with the rows of test_id replaced by rows
ValuesWritten(test_id, rows) ==
    [t \in DOMAIN values_table \cup {test_id} |->
        IF t = test_id THEN rows ELSE values_table[t]]

\* the tables as the statements before the failing one have left them
AfterStatements(u, step) ==
    IF step \in {"lookup", "header"}
    THEN [header |-> header_table, values |-> values_table]
    ELSE IF step = "delete"
    THEN [header |-> HeaderWritten(u), values |-> values_table]
    ELSE IF step = "insert"
    THEN [header |-> HeaderWritten(u), values |-> ValuesWritten(TestId(u), <<>>)]
    ELSE [header |-> HeaderWritten(u),
          values |-> ValuesWritten(TestId(u), ValuesOf(txDf[u]))]

\* a connection that commits each statement as it runs
PersistedWithoutRollback(before, after, raised) == after

\* with self.engine.begin() as conn: commit when the block ends, rollback
\* when it raises
Persisted(before, after, raised) == IF raised THEN before ELSE after

\* the exception reaching the caller, by the statement that raised
RaisedAt(step) ==
    CASE step = "lookup" -> "save_table_data raised at lookup"
      [] step = "header" -> "save_table_data raised at header"
      [] step = "delete" -> "save_table_data raised at delete"
      [] OTHER -> "save_table_data raised at insert"

\* rows the DELETE of the value rows removes
DeletedRows(test_id) ==
    IF test_id \in DOMAIN values_table THEN Len(values_table[test_id]) ELSE 0

\* save_table_data from "if not existing_gt_header" to the commit, or to the
\* rollback when a statement raises; the id sequence is not rolled back
save_table_data_write(u) ==
    /\ pc[u] = "saving"
    /\ \E step \in SaveFailure(u) :
          LET end == Persisted([header |-> header_table, values |-> values_table],
                               AfterStatements(u, step), step # "none")
          IN  /\ header_table' = end.header
              /\ values_table' = end.values
              /\ nextTestId' = IF txGt[u] = 0 /\ step \in {"delete", "insert", "none"}
                               THEN nextTestId + 1 ELSE nextTestId
              /\ lastOp' = IF step = "none"
                           THEN Op("save_table_data", txArg[u], DeletedRows(TestId(u)))
                           ELSE Op(RaisedAt(step), txArg[u], 0)
    /\ pc' = [pc EXCEPT ![u] = "idle"]
    /\ txGt' = [txGt EXCEPT ![u] = 0]
    /\ txDf' = [txDf EXCEPT ![u] = NoTable]
    /\ txArg' = [txArg EXCEPT ![u] = NoDoc]
    /\ UNCHANGED <<documents, annotations, nextId, clock, txStart, txDel, txSnap,
                   txTime, txIns, txLock, returns>>

\* ------------------------------------------------------------------------
\* LabAnalysisUI.run: one reviewer's session
\* ------------------------------------------------------------------------
\* fetch_document with no document in the session: fetch_unannotated_doc starts
fetch_document(u) ==
    /\ current_doc_id[u] = NoDoc
    /\ fetch_unannotated_doc_begin(u)

\* fetch_document: the call returns; a document returned is kept in the session
fetch_document_return(u) ==
    /\ fetch_unannotated_doc_return(u)
    /\ current_doc_id' = [current_doc_id EXCEPT ![u] = txLock[u]]
    /\ UNCHANGED <<table_data, header_table, values_table, nextTestId, txGt, txDf,
                   savedChanges, finished>>

\* handle_table_operations: the table is loaded from the gpt rows when the
\* session has none
handle_table_operations_load(u) ==
    /\ pc[u] = "idle"
    /\ current_doc_id[u] # NoDoc
    /\ table_data[u] = NoTable
    /\ \E t \in PreparedTables(current_doc_id[u]) :
          table_data' = [table_data EXCEPT ![u] = t]
    /\ lastOp' = NoOp
    /\ UNCHANGED <<documents, annotations, nextId, clock, pc, returns>>
    /\ UNCHANGED txVars
    /\ UNCHANGED <<current_doc_id, header_table, values_table, nextTestId, txGt,
                   txDf, savedChanges, finished>>

\* "Save Changes": the edited table is put in the session and
\* save_table_data is called for the document shown
save_changes_click(u, edited_df) ==
    /\ current_doc_id[u] # NoDoc
    /\ table_data[u] # NoTable
    /\ table_data' = [table_data EXCEPT ![u] = edited_df]
    /\ save_table_data_check(u, current_doc_id[u], edited_df)
    /\ UNCHANGED <<current_doc_id, savedChanges, finished>>

\* save_table_data returns ("Changes saved successfully!") or raises
\* ("Failed to save changes.")
save_changes_done(u) ==
    /\ save_table_data_write(u)
    /\ savedChanges' = [savedChanges EXCEPT ![u] = @ \/ lastOp'.op = "save_table_data"]
    /\ UNCHANGED <<current_doc_id, table_data, finished>>

\* cleanup_session_state, then current_doc_id = None and st.rerun()
CleanupSession(u) ==
    /\ pc[u] = "idle"
    /\ current_doc_id[u] # NoDoc
    /\ current_doc_id' = [current_doc_id EXCEPT ![u] = NoDoc]
    /\ table_data' = [table_data EXCEPT ![u] = NoTable]
    /\ savedChanges' = [savedChanges EXCEPT ![u] = FALSE]
    /\ lastOp' = NoOp
    /\ UNCHANGED <<documents, annotations, nextId, clock, pc, returns>>
    /\ UNCHANGED txVars
    /\ UNCHANGED <<header_table, values_table, nextTestId, txGt, txDf>>

\* show_navigation_controls: "Save Annotation"
save_annotation_click(u) ==
    /\ CleanupSession(u)
    /\ finished' = IF savedChanges[u]
                   THEN finished \cup {current_doc_id[u]}
                   ELSE finished

\* show_navigation_controls: "Next Document"
next_document_click(u) ==
    /\ CleanupSession(u)
    /\ UNCHANGED finished

\* the tables a reviewer submits in the session runs: the table as loaded, one
\* edited table, and the table with every row removed
EditedTables(u) ==
    {table_data[u], <<TableRow("2024-01-02", 1, "WBC")>>, EmptyTable}

\* the store when the application starts: the first document has a gpt
\* header with one value row, no document has a ground_truth header or an
\* annotation row
InitApp ==
    /\ InitClaims
    /\ current_doc_id = [u \in Users |-> NoDoc]
    /\ table_data = [u \in Users |-> NoTable]
    /\ header_table = IF documents = {} THEN {}
                      ELSE {HeaderRow(1, Min(documents), "2024-01-01", 1, "gpt")}
    /\ values_table = IF documents = {} THEN <<>> ELSE (1 :> <<"HGB">>)
    /\ nextTestId = IF documents = {} THEN 1 ELSE 2
    /\ txGt = [u \in Users |-> 0]
    /\ txDf = [u \in Users |-> NoTable]
    /\ savedChanges = [u \in Users |-> FALSE]
    /\ finished = {}

NextApp ==
    \/ \E u \in Users : fetch_document(u)
    \/ \E u \in Users : fetch_unannotated_doc_cleanup(u)
    \/ \E u \in Users : fetch_unannotated_doc_snapshot(u)
    \/ \E u \in Users : fetch_unannotated_doc_select(u)
    \/ \E u \in Users : fetch_document_return(u)
    \/ \E u \in Users : handle_table_operations_load(u)
    \/ \E u \in Users : \E df \in EditedTables(u) : save_changes_click(u, df)
    \/ \E u \in Users : save_changes_done(u)
    \/ \E u \in Users : save_annotation_click(u)
    \/ \E u \in Users : next_document_click(u)
    \/ Tick

SpecApp == InitApp /\ [][NextApp]_vars

\* ------------------------------------------------------------------------
\* Properties
\* ------------------------------------------------------------------------
AllIdle == \A u \in Users : pc[u] = "idle"

InProcessStatuses == {STATUS_IN_PROCESS, MARK_STATUS_LITERAL}

RowsOf(doc_id) == {r \in annotations : r.doc_id = doc_id}

\* C1: among N concurrent fetch_unannotated_doc calls against documents that
\* have no annotation row, no document is returned by more than one call.
C1_NoDocReturnedTwice ==
    \A d \in Docs : returns[d] <= 1

\* C3: when N concurrent fetch_unannotated_doc calls against M documents with
\* no annotation row (and no lease expiring) have all completed, exactly
\* min(N, M) of them returned a document.
C3_ExactlyMinReturn ==
    AllIdle =>
        CallsReturningDoc = Min({CallsCompleted, Cardinality(documents)})

\* One transaction at a time: a call runs from its first statement to its
\* commit with no step of another reviewer in between (time may pass)
Alone(u) == \A v \in Users \ {u} : pc[v] = "idle"

NextSeq ==
    \/ \E u \in Users : Alone(u) /\ fetch_unannotated_doc_begin(u)
    \/ \E u \in Users : Alone(u) /\ fetch_unannotated_doc_cleanup(u)
    \/ \E u \in Users : Alone(u) /\ fetch_unannotated_doc_snapshot(u)
    \/ \E u \in Users : Alone(u) /\ fetch_unannotated_doc_select(u)
    \/ \E u \in Users : Alone(u) /\ fetch_unannotated_doc_commit(u)
    \/ \E u \in Users, d \in documents : Alone(u) /\ save_annotation(u, d)
    \/ \E u \in Users, d \in documents : Alone(u) /\ save_annotated_doc(u, d)
    \/ \E u \in Users, d \in documents : Alone(u) /\ mark_document_in_process_check(u, d)
    \/ \E u \in Users : Alone(u) /\ mark_document_in_process_insert(u)
    \/ Tick

SpecSeq == Init /\ [][NextSeq]_vars

\* C2: in every reachable state each doc_id has at most one annotation row in
\* the in-process state.
C2_OneInProcessPerDoc ==
    \A d \in Docs :
        Cardinality({r \in RowsOf(d) : r.status \in InProcessStatuses}) <= 1

Ids(rows) == {r.id : r \in rows}

\* the row of annotations' that has the id of r (defined when r is kept)
After(r) == CHOOSE r2 \in annotations' : r2.id = r.id

Kept(r) == r.id \in Ids(annotations')

Changed(r) == Kept(r) /\ After(r) # r

C5_StatusChain ==
    [][\A r \in annotations :
          /\ (Kept(r) /\ After(r).status # r.status) =>
                \/ r.status \in InProcessStatuses /\ After(r).status = STATUS_COMPLETED
                \/ r.status = STATUS_COMPLETED /\ After(r).status = STATUS_CHECKED
          /\ ~Kept(r) => r.status \in InProcessStatuses
      ]_vars

\* C6: no operation changes the status of a row from completed or checked
\* back to in-process, and the status of a checked row never changes.
C6_NoWayBack ==
    [][\A r \in annotations : Kept(r) =>
          /\ r.status \in {STATUS_COMPLETED, STATUS_CHECKED}
                => After(r).status \notin InProcessStatuses
          /\ r.status = STATUS_CHECKED => After(r).status = STATUS_CHECKED
      ]_vars

\* save_annotation has run for a doc_id that has a checked row
C6_Witness ==
    /\ lastOp.op = "save_annotation"
    /\ \E r \in RowsOf(lastOp.doc_id) : r.status = STATUS_CHECKED

\* when the row was created: the claim time, or for a row of
\* mark_document_in_process that is still in-process the save_time of its insert
CreatedAt(r) == IF r.time # NULL_TIME THEN r.time ELSE r.save_time

\* C7: an in-process claim that was never finalized, created by
\* fetch_unannotated_doc or by mark_document_in_process, is deleted by the
\* expiry sweep of a claim attempt that runs more than 30 minutes after the
\* claim was created.
C7_SweepDeletesEveryStaleClaim ==
    [][\A u \in Users : (pc[u] = "begin" /\ pc'[u] = "swept") =>
          \A r \in annotations :
              (r.status \in InProcessStatuses /\ txStart[u] - CreatedAt(r) > 30)
                  => r.id \in txDel'[u]
      ]_vars

\* C9: the expiry sweep deletes exactly the rows whose status is in-process
\* and whose claim time is more than 30 minutes in the past; a row that
\* leaves the table was such a row of the sweep that commits.
C9_SweepDeletesExactlyExpired ==
    [][/\ \A u \in Users : (pc[u] = "begin" /\ pc'[u] = "swept") =>
            txDel'[u] = Ids({r \in annotations :
                                /\ r.status = STATUS_IN_PROCESS
                                /\ r.time # NULL_TIME
                                /\ txStart[u] - r.time > 30})
       /\ \A r \in annotations : ~Kept(r) =>
            /\ r.status = STATUS_IN_PROCESS
            /\ \E u \in Users : /\ pc[u] = "selected" /\ pc'[u] = "idle"
                                /\ r.time # NULL_TIME
                                /\ txStart[u] - r.time > 30
      ]_vars

\* a sweep has run and has spared an in-process row claimed exactly 30
\* minutes before it
C9_Witness ==
    \E u \in Users :
        /\ pc[u] = "swept"
        /\ \E r \in annotations :
              /\ r.id \notin txDel[u]
              /\ r.status = STATUS_IN_PROCESS
              /\ r.time = txStart[u] - 30

\* C10: with one document whose only claim is in-process and older than 30
\* minutes, one fetch_unannotated_doc call deletes the claim and returns the
\* document with a fresh in-process claim.
C10_SweepThenClaimInOneCall ==
    [][\A u \in Users, d \in Docs :
          ( /\ pc[u] = "selected" /\ pc'[u] = "idle"
            /\ documents = {d}
            /\ annotations # {}
            /\ \A r \in annotations :
                  /\ r.status = STATUS_IN_PROCESS
                  /\ r.time # NULL_TIME
                  /\ txStart[u] - r.time > 30 )
          => /\ returns'[d] = returns[d] + 1
             /\ Ids(annotations') \cap Ids(annotations) = {}
             /\ \E r2 \in annotations' :
                   /\ annotations' = {r2}
                   /\ r2.doc_id = d
                   /\ r2.status = STATUS_IN_PROCESS
                   /\ r2.time >= txStart[u]
      ]_vars

\* the only document has been returned by a second call, after the claim of
\* the first call had expired
C10_Witness ==
    /\ AllIdle
    /\ \E d \in Docs :
          /\ documents = {d}
          /\ returns[d] = 2
          /\ \E r \in annotations : r.doc_id = d /\ r.status = STATUS_IN_PROCESS /\ r.time > 30

\* C8: once a reviewer has saved edits for a claimed document and finished it
\* with Save Annotation, the claim row of the document is in a terminal
\* status (completed or checked).
C8_FinishedIsTerminal ==
    \A d \in finished :
        /\ RowsOf(d) # {}
        /\ \A r \in RowsOf(d) : r.status \in {STATUS_COMPLETED, STATUS_CHECKED}

\* ------------------------------------------------------------------------
\* A store that holds an expired claim when the calls start
\* ------------------------------------------------------------------------
\* the row an earlier fetch_unannotated_doc call left for the first document
\* at minute 0, never finalized, for a reviewer who has left; its id precedes
\* the ids handed out from here
StaleClaim == ClaimRow(0, Min(documents), 0, NULL_NAME)

InitLease ==
    /\ documents \in SUBSET Docs \ {{}}
    /\ annotations = {StaleClaim}
    /\ nextId = 1
    /\ clock = 0
    /\ pc = [u \in Users |-> "idle"]
    /\ txStart = [u \in Users |-> 0]
    /\ txDel = [u \in Users |-> {}]
    /\ txSnap = [u \in Users |-> {}]
    /\ txTime = [u \in Users |-> 0]
    /\ txIns = [u \in Users |-> {}]
    /\ txLock = [u \in Users |-> NoDoc]
    /\ txArg = [u \in Users |-> NoDoc]
    /\ returns = [d \in Docs \cup {NoDoc} |-> 0]
    /\ lastOp = NoOp
    /\ current_doc_id = [u \in Users |-> NoDoc]
    /\ table_data = [u \in Users |-> NoTable]
    /\ header_table = {}
    /\ values_table = <<>>
    /\ nextTestId = 1
    /\ txGt = [u \in Users |-> 0]
    /\ txDf = [u \in Users |-> NoTable]
    /\ savedChanges = [u \in Users |-> FALSE]
    /\ finished = {}

\* concurrent claim (with its sweep) and finalize transactions, and the clock
NextLease ==
    \/ \E u \in Users : fetch_unannotated_doc_begin(u)
    \/ \E u \in Users : fetch_unannotated_doc_cleanup(u)
    \/ \E u \in Users : fetch_unannotated_doc_snapshot(u)
    \/ \E u \in Users : fetch_unannotated_doc_select(u)
    \/ \E u \in Users : fetch_unannotated_doc_commit(u)
    \/ \E u \in Users, d \in documents : save_annotation(u, d)
    \/ Tick

SpecLease == InitLease /\ [][NextLease]_vars

\* the DELETE of cleanup_query of reviewer u waits: a row it selects is
\* locked by the uncommitted DELETE of another transaction
SweepBlocked(u) ==
    /\ pc[u] = "begin"
    /\ Expired(VisibleTo(u), txStart[u]) \cap LockedByOther(u) # {}

\* C11: in no reachable state is a fetch_unannotated_doc call (its expiry
\* sweep included) waiting for a row lock held by another transaction.
C11_ClaimNeverBlocks ==
    \A u \in Users : ~SweepBlocked(u)

\* ------------------------------------------------------------------------
\* Concurrent and sequential calls of save_table_data
\* ------------------------------------------------------------------------
\* a call of save_table_data for any document, whatever the session shows
save_table_data_begin(u, doc_id, df) ==
    /\ save_table_data_check(u, doc_id, df)
    /\ UNCHANGED <<current_doc_id, table_data, savedChanges, finished>>

save_table_data_end(u) ==
    /\ save_table_data_write(u)
    /\ UNCHANGED <<current_doc_id, table_data, savedChanges, finished>>

NextSave ==
    \/ \E u \in Users, d \in documents, df \in Tables : save_table_data_begin(u, d, df)
    \/ \E u \in Users : save_table_data_end(u)

SpecSave == InitApp /\ [][NextSave]_vars

\* one call at a time
NextSaveSeq ==
    \/ \E u \in Users, d \in documents, df \in Tables :
          Alone(u) /\ save_table_data_begin(u, d, df)
    \/ \E u \in Users : save_table_data_end(u)

SpecSaveSeq == InitApp /\ [][NextSaveSeq]_vars

\* C12: whatever the interleaving of concurrent save_table_data calls, the
\* header table holds at most one ground_truth header for each doc_id.
C12_OneGroundTruthHeader ==
    \A d \in Docs : Cardinality(HeadersOf(d, "ground_truth")) <= 1

\* a save_table_data call of reviewer u ends in this step
SaveEnds(u) == pc[u] = "saving" /\ pc'[u] = "idle"

\* C13: a save_table_data call that follows an earlier one for the same
\* doc_id (calls run one after the other) leaves exactly one ground_truth
\* header for the doc_id, with the header fields of this call, and exactly
\* the value rows of this call under it.
C13_SecondSaveReplaces ==
    [][\A u \in Users : (SaveEnds(u) /\ lastOp'.op = "save_table_data") =>
          \E h \in header_table' :
              /\ {g \in header_table' : /\ g.doc_id = txArg[u]
                                        /\ g.annotation_source = "ground_truth"} = {h}
              /\ h.test_date = HeaderOf(txDf[u]).test_date
              /\ h.analysis_order = HeaderOf(txDf[u]).analysis_order
              /\ values_table'[h.id] = ValuesOf(txDf[u])
      ]_vars

\* a second call has replaced the one value row of the first call by two
C13_Witness ==
    /\ lastOp.op = "save_table_data"
    /\ lastOp.rowcount = 1
    /\ \E h \in HeadersOf(lastOp.doc_id, "ground_truth") : Len(values_table[h.id]) = 2

\* C14: no save_table_data call inserts, updates or deletes a gpt header or a
\* value row under a gpt header; the value rows a call writes are under the
\* ground_truth header of the document of the call.
C14_GptUntouched ==
    [][/\ \A h \in header_table : h.annotation_source = "gpt" =>
              /\ h \in header_table'
              /\ h.id \in DOMAIN values_table'
              /\ values_table'[h.id] = values_table[h.id]
       /\ \A h \in header_table' : h.annotation_source = "gpt" => h \in header_table
       /\ \A t \in DOMAIN values_table' :
              (t \notin DOMAIN values_table \/ values_table'[t] # values_table[t]) =>
                  \E u \in Users, h \in header_table' :
                      /\ SaveEnds(u)
                      /\ h.id = t
                      /\ h.doc_id = txArg[u]
                      /\ h.annotation_source = "ground_truth"
      ]_vars

\* a call has saved a table for a document that has a gpt header
C14_Witness ==
    /\ lastOp.op = "save_table_data"
    /\ HeadersOf(lastOp.doc_id, "gpt") # {}
    /\ HeadersOf(lastOp.doc_id, "ground_truth") # {}

\* C15: a save_table_data call in which a statement fails leaves the header
\* table and the values table as they were before the call, and the failure
\* is raised to the caller.
C15_AllOrNothing ==
    [][\A u \in Users : (SaveEnds(u) /\ lastOp'.op # "save_table_data") =>
          /\ header_table' = header_table
          /\ values_table' = values_table
          /\ lastOp'.op \in {RaisedAt(step) : step \in {"lookup", "header", "delete", "insert"}}
      ]_vars

\* a call has failed at its last statement, after the header was written and
\* the old value rows were deleted
C15_Witness ==
    /\ lastOp.op = RaisedAt("insert")
    /\ lastOp.doc_id \in documents

\* a fetch_unannotated_doc call of reviewer u returns in this step
FetchReturns(u) == pc[u] = "selected" /\ pc'[u] = "idle"

\* the result of the call that returns in this step
Returned == CHOOSE d \in Docs \cup {NoDoc} : returns'[d] = returns[d] + 1

\* rows inserted in this step
Inserted == {r \in annotations' : r.id \notin Ids(annotations)}

\* documents with no annotation row among the rows the sweep of the call of
\* reviewer u has left
Unclaimed(u) ==
    {d \in documents : ~ \E r \in annotations : r.doc_id = d /\ r.id \notin txDel[u]}

\* C16: a fetch_unannotated_doc call that runs with no other transaction in
\* flight returns the smallest doc_id among the documents that have no
\* annotation row of any status (once its own sweep has run), and returns
\* nothing exactly when every document has an annotation row.
C16_SmallestUnannotated ==
    [][\A u \in Users : FetchReturns(u) =>
          /\ Unclaimed(u) # {} => Returned = Min(Unclaimed(u))
          /\ Unclaimed(u) = {} <=> Returned = NoDoc
      ]_vars

\* with document 1 finalized, a call has returned document 2, and a call has
\* returned nothing
C16_Witness ==
    /\ AllIdle
    /\ documents = {1, 2}
    /\ \E r \in RowsOf(1) : r.status = STATUS_COMPLETED
    /\ returns[2] = 1
    /\ \A d \in documents : RowsOf(d) # {}

\* C17: a fetch_unannotated_doc call that returns a document inserts exactly
\* one annotation row: for the doc_id returned, with status 'in process', the
\* time of the call and no username; a call that returns nothing inserts no
\* row.
C17_OneRowPerClaim ==
    [][\A u \in Users : FetchReturns(u) =>
          IF Returned = NoDoc
          THEN Inserted = {}
          ELSE \E r \in Inserted :
                  /\ Inserted = {r}
                  /\ r.doc_id = Returned
                  /\ r.status = STATUS_IN_PROCESS
                  /\ r.username = NULL_NAME
                  /\ r.save_time = NULL_TIME
                  /\ txStart[u] <= r.time /\ r.time <= clock
      ]_vars

\* one call has returned a document it claimed at minute 30, and one call
\* has returned nothing
C17_Witness ==
    /\ AllIdle
    /\ returns[NoDoc] = 1
    /\ \E r \in annotations : r.time = TickStep /\ returns[r.doc_id] = 1

\* C18: when the sweep has run, the same sweep run again at once (no other
\* operation, the same NOW()) deletes no row and leaves the rows as the
\* first run left them.
C18_SweepIdempotent ==
    [][\A u \in Users : (pc[u] = "begin" /\ pc'[u] = "swept") =>
          LET left == {r \in annotations' : r.id \notin txDel'[u]}
          IN  /\ Expired(left, txStart[u]) = {}
              /\ left \ Expired(left, txStart[u]) = left
      ]_vars

\* a sweep has deleted two expired rows
C18_Witness ==
    \E u \in Users : pc[u] = "swept" /\ Cardinality(txDel[u]) = 2

\* C19: save_annotation called by a reviewer changes only rows that the
\* reviewer's own claim created; a row created by another reviewer's claim
\* is left unchanged.
C19_FinalizeOwnClaimOnly ==
    [][\A r \in annotations :
          (Changed(r) /\ lastOp'.op = "save_annotation") =>
              After(r).username = r.claimant
      ]_vars

\* C20: a document that has a completed or checked row when select_query
\* picks its document is not picked (so it is never returned by
\* fetch_unannotated_doc again), and a completed or checked row is never
\* deleted.
C20_FinalizedStaysOut ==
    [][/\ \A u \in Users : (pc[u] = "snap" /\ pc'[u] = "selected") =>
              ~ \E r \in annotations :
                    /\ r.doc_id = txLock'[u]
                    /\ r.status \in {STATUS_COMPLETED, STATUS_CHECKED}
       /\ \A r \in annotations :
              r.status \in {STATUS_COMPLETED, STATUS_CHECKED} => Kept(r)
      ]_vars

\* C21: a save_table_data call with a table of zero rows, for a doc_id that
\* has a ground_truth header with value rows, removes every value row under
\* that header and leaves the header in place.
C21_EmptySaveClearsValues ==
    [][\A u \in Users :
          ( /\ SaveEnds(u)
            /\ txDf[u] = EmptyTable
            /\ txGt[u] # 0
            /\ values_table[txGt[u]] # <<>> )
          => /\ values_table'[txGt[u]] = <<>>
             /\ \E h \in header_table' : h.id = txGt[u]
      ]_vars

\* ------------------------------------------------------------------------
\* Claim calls against a store that may fail a statement
\* ------------------------------------------------------------------------
NextFail ==
    \/ \E u \in Users : fetch_unannotated_doc_begin(u)
    \/ \E u \in Users : fetch_unannotated_doc_cleanup(u)
    \/ \E u \in Users : fetch_unannotated_doc_snapshot(u)
    \/ \E u \in Users : fetch_unannotated_doc_select(u)
    \/ \E u \in Users : fetch_unannotated_doc_commit(u)
    \/ \E u \in Users : fetch_unannotated_doc_raise(u)
    \/ Tick

SpecFail == InitLease /\ [][NextFail]_vars

\* a fetch_unannotated_doc call of reviewer u ends in this step without a
\* result
FetchFails(u) == pc[u] \in FetchStates /\ pc'[u] = "idle" /\ returns' = returns

\* C22: when a statement of a fetch_unannotated_doc call fails, the error is
\* raised to the caller and the transaction is rolled back: the committed
\* rows are as before the call, with no row inserted and no row of the
\* call's sweep deleted, and the call holds no lock any more.
C22_FailedClaimRollsBack ==
    [][\A u \in Users : FetchFails(u) =>
          /\ lastOp'.op = "fetch_unannotated_doc raised"
          /\ annotations' = annotations
          /\ txDel'[u] = {} /\ txIns'[u] = {} /\ txLock'[u] = NoDoc
      ]_vars

\* a call has failed after its sweep had deleted the expired claim and its
\* select_query had inserted a row; the expired claim is still in the table
C22_Witness ==
    /\ lastOp.op = "fetch_unannotated_doc raised"
    /\ lastOp.rowcount = 2
    /\ StaleClaim \in annotations
    /\ Cardinality(annotations) = 1

\* C23: with calls one after the other, mark_document_in_process(doc_id,
\* username) inserts a row only when no row with that doc_id and username
\* exists, whatever the status; when one exists the call inserts nothing and
\* changes nothing, so the rows it has inserted and nobody has finalized
\* are at most one for each doc_id and username.
C23_MarkIdempotent ==
    [][/\ \A u \in Users : (pc[u] = "mark" /\ pc'[u] = "idle") =>
              /\ ~ \E r \in annotations : r.doc_id = txArg[u] /\ r.username = u
              /\ annotations \subseteq annotations'
              /\ \E r \in Inserted :
                    Inserted = {r} /\ r.doc_id = txArg[u] /\ r.username = u
       /\ (lastOp'.op = "mark_document_in_process" /\ lastOp'.rowcount > 0) =>
              /\ annotations' = annotations
              /\ pc' = pc
       /\ \A u \in Users, d \in Docs :
              Cardinality({r \in annotations' : /\ r.doc_id = d
                                                /\ r.username = u
                                                /\ r.status = MARK_STATUS_LITERAL}) <= 1
      ]_vars

\* a repeated call has found the row of the first call, checked by then, and
\* has left the document with that one row
C23_Witness ==
    /\ lastOp.op = "mark_document_in_process"
    /\ lastOp.rowcount = 1
    /\ AllIdle
    /\ \E r \in annotations :
          /\ RowsOf(lastOp.doc_id) = {r}
          /\ r.status = STATUS_CHECKED
          /\ r.time = NULL_TIME
====
